---- MODULE Spec2Model ----
(***************************************************************************)
(* A model of the VITS voice of sonata (piper/models/vits/src/lib.rs):     *)
(* the phoneme-to-id mapper, the lock-guarded synthesis parameters, the    *)
(* monolithic and the streaming (encoder/decoder) inference calls, the     *)
(* ownership of the encoder's output buffers, and the speech streamer.     *)
(*                                                                         *)
(* Floats are modelled by small naturals, characters by one-character      *)
(* strings, a HashMap by a function on its key set, Option by the value    *)
(* None, and a panic (unwrap on None, index out of bounds, todo!()) by the *)
(* thread ending in the state "panicked".                                  *)
(***************************************************************************)
EXTENDS Integers, Sequences, FiniteSets, TLC

(***************************************************************************)
(* Bounds of the model.                                                    *)
(***************************************************************************)
\* Longest phoneme string handed to phonemes_to_input_ids.
MaxLen == 3
\* Scale values (floats) range over 0..MaxScale.
MaxScale == 1
\* Largest total decoded length of an utterance.
MaxTotal == 1
\* Largest chunk_size and chunk_padding given to stream_synthesis.
MaxChunk == 1
MaxPadding == 0
\* Speaker ids of the descriptors a voice is loaded from range over 0..MaxSpeakerId.
MaxSpeakerId == 2
\* Audio tensors hold at most MaxSamples floats, each a multiple of 0.005
\* between -MaxAmp and MaxAmp (or NaN).
MaxSamples == 2
MaxAmp == 3
\* Scaled floats are kept to 1/Resolution.
Resolution == 4
\* speak_batch is given at most MaxBatch phoneme strings.
MaxBatch == 2

\* Two caller threads share one voice (VitsVoice is Send + Sync).
Threads == {1, 2}

\* Option<T>: None is the empty sequence, Some(x) the sequence of x alone.
None == <<>>
Some(x) == <<x>>

(***************************************************************************)
(* lib.rs:20-22                                                            *)
(***************************************************************************)
BOS == "^"
EOS == "$"
PAD == "_"

\* The characters phoneme strings are made of: the three meta characters, two
\* ordinary phonemes, and "x", which no vocabulary of the model maps.
Chars == {BOS, EOS, PAD, "a", "b", "x"}

Range(f) == {f[k] : k \in DOMAIN f}

(***************************************************************************)
(* The model descriptor (ModelConfig, lib.rs:177-192), as far as the voice *)
(* reads it: num_speakers, speaker_id_map (name -> id), streaming,         *)
(* inference (the default scales) and phoneme_id_map (character -> a       *)
(* non-empty list of ids, of which the first is used).                     *)
(***************************************************************************)
\* Vocabularies that hold the three meta characters; "a" and "b" are mapped or not.
FullVocabularies ==
    { [c \in {PAD, BOS, EOS} \cup extra |->
          CASE c = PAD -> <<0>>
            [] c = BOS -> <<1>>
            [] c = EOS -> <<2>>
            [] c = "a" -> la
            [] OTHER   -> <<4>>] :
      extra \in SUBSET {"a", "b"}, la \in {<<3>>, <<3, 5>>} }

\* A vocabulary without `missing`, one of the meta characters.
VocabularyWithout(missing) ==
    [c \in ({PAD, BOS, EOS, "a"} \ {missing}) |->
          CASE c = PAD -> <<0>>
            [] c = BOS -> <<1>>
            [] c = EOS -> <<2>>
            [] OTHER   -> <<3>>]

CompleteVocabulary == [c \in {PAD, BOS, EOS, "a", "b"} |->
          CASE c = PAD -> <<0>>
            [] c = BOS -> <<1>>
            [] c = EOS -> <<2>>
            [] c = "a" -> <<3>>
            [] OTHER   -> <<4>>]

\* InferenceConfig of the descriptor (lib.rs:157-162).
DefaultInference == [noise_scale |-> 0, length_scale |-> 1, noise_w |-> 0]

SpeakerTable == [n \in {"alice", "bob"} |-> IF n = "alice" THEN 0 ELSE 1]

\* The speaker names callers pass: one of the table (not the default speaker, who
\* has id 0), one that is not in it.
SpeakerNames == {"bob", "carol"}

ModelConfig(ns, streaming, vocabulary) ==
    [num_speakers   |-> ns,
     speaker_id_map |-> SpeakerTable,
     streaming      |-> streaming,
     inference      |-> DefaultInference,
     sample_rate    |-> 22050,
     phoneme_id_map |-> vocabulary]

VARIABLES
    config,        \* the ModelConfig of the voice (immutable after load)
    speaker_map,   \* VitsModel.speaker_map: id -> name
    phonemes,      \* the phoneme string given to phonemes_to_input_ids
    phoneme_ids,   \* its result, None before the call
    audio_f32,     \* the float tensor given to audio_float_to_i16
    batch,         \* per thread, the locals of its speak_batch, None if it made none
    synth_config,  \* the SynthesisConfig inside the RwLock
    readers,       \* the threads holding a read guard of the RwLock
    pc,            \* where each thread is
    call,          \* the locals of each thread's call in flight
    res,           \* what each thread's last call returned
    log,           \* per thread, what its current (or last) call did to the backend
    streamer,      \* the SpeechStreamer each thread holds, or None
    last_set,      \* history: the value last passed to each successful setter
    snap           \* history: synth_config when the thread took its read guard

vars == <<config, speaker_map, phonemes, phoneme_ids, audio_f32, batch, synth_config,
          readers,
          pc, call, res, log, streamer, last_set, snap>>

voice_vars == <<synth_config, readers, pc, call, res, log, streamer, last_set, snap>>

(***************************************************************************)
(* VitsModelCommons::get_meta_ids (lib.rs:207-213): each of the three      *)
(* lookups is .get(..).unwrap(), which panics when the character is not a  *)
(* key of phoneme_id_map.                                                  *)
(***************************************************************************)
meta_ids_present(cfg) == {PAD, BOS, EOS} \subseteq DOMAIN cfg.phoneme_id_map

get_meta_ids(cfg) ==
    [pad_id |-> Head(cfg.phoneme_id_map[PAD]),
     bos_id |-> Head(cfg.phoneme_id_map[BOS]),
     eos_id |-> Head(cfg.phoneme_id_map[EOS])]

(***************************************************************************)
(* VitsModelCommons::phonemes_to_input_ids (lib.rs:300-318).               *)
(***************************************************************************)
\* The loop of lines 310-315: a mapped character pushes its first id, then PAD.
RECURSIVE push_phonemes(_, _, _)
push_phonemes(cfg, phs, pad_id) ==
    IF phs = <<>> THEN <<>>
    ELSE (IF Head(phs) \in DOMAIN cfg.phoneme_id_map
             THEN <<Head(cfg.phoneme_id_map[Head(phs)]), pad_id>>
             ELSE <<>>)
         \o push_phonemes(cfg, Tail(phs), pad_id)

phonemes_to_input_ids(cfg, phs, pad_id, bos_id, eos_id) ==
    <<bos_id>> \o push_phonemes(cfg, phs, pad_id) \o <<eos_id>>


(***************************************************************************)
(* Values of the voice's state.                                            *)
(***************************************************************************)
\* PiperResult: Ok(v), Err(PiperError::OperationError(msg)); a panic returns nothing.
NoResult == [op |-> "", kind |-> "", val |-> <<>>]
Ok(op, v) == [op |-> op, kind |-> "Ok", val |-> v]
OperationError(op, msg) == [op |-> op, kind |-> "OperationError", val |-> msg]
Panic(op, at) == [op |-> op, kind |-> "panic", val |-> <<at>>]

\* The locals of a synthesis call: the input ids, the scales read from
\* synth_config, the tensors given to the backend, the EncoderOutputs.
NoCall == [op |-> "", ids |-> <<>>, chunk |-> <<>>, scales |-> <<>>,
           inputs |-> <<>>, enc |-> None]

\* What a call did: the sessions it ran, in order; the message of the backend
\* run that failed; how many sets of encoder output buffers the backend
\* allocated for the call and how many times they were released; how many
\* chunks the pulls of its streamer yielded.
NoLog == [runs |-> <<>>, failed |-> None,
          allocated |-> 0, released |-> 0, yielded |-> 0]

\* The values floats take in the model.
Scales == 0..MaxScale

\* The messages a failing backend run carries.
BackendMessages == {"bad input", "out of memory"}

\* What one session.run returns: an error with its message, or n output tensors
\* of which the bad-th (0: none) is not a float tensor, holding `total` samples
\* (frames), with or without a NaN among them.
RunOutcome(ok, msg, n, bad, total, nan) ==
    [ok |-> ok, msg |-> msg, n |-> n, bad |-> bad, total |-> total, nan |-> nan]

RunErrors == {RunOutcome(FALSE, m, 0, 0, 0, FALSE) : m \in BackendMessages}

\* The monolithic session and the decoder: no or one output tensor.
AudioOutcomes(totals) ==
    RunErrors
      \cup {RunOutcome(TRUE, "", 0, 0, 0, FALSE), RunOutcome(TRUE, "", 1, 1, 0, FALSE)}
      \cup {RunOutcome(TRUE, "", 1, 0, l, FALSE) : l \in totals}
      \cup {RunOutcome(TRUE, "", 1, 0, l, TRUE) : l \in totals \ {0}}

\* The encoder: zero to three output tensors (z, y_mask, g).
EncoderOutcomes ==
    RunErrors
      \cup {o \in {RunOutcome(TRUE, "", n, bad, 0, FALSE) : n \in 1..3, bad \in 1..3} :
                o.bad <= o.n}
      \cup {RunOutcome(TRUE, "", n, 0, 0, FALSE) : n \in 0..1}
      \cup {RunOutcome(TRUE, "", n, 0, l, FALSE) : n \in 2..3, l \in 0..MaxTotal}

InferenceFailed(e) == <<"Failed to run model inference. Error: ", e>>

(***************************************************************************)
(* The state of a voice on which no call was made yet: load_model_config   *)
(* builds the SynthesisConfig (lib.rs:81-86), from_config wraps it in the  *)
(* RwLock (lib.rs:411-417, 590-597).                                       *)
(***************************************************************************)
load_model_config(cfg) ==
    [speaker      |-> None,
     noise_scale  |-> cfg.inference.noise_scale,
     length_scale |-> cfg.inference.length_scale,
     noise_w      |-> cfg.inference.noise_w]

\* History: no setter was called yet, the descriptor's values stand.
NothingSet(cfg) ==
    [speaker      |-> None,
     noise_scale  |-> cfg.inference.noise_scale,
     length_scale |-> cfg.inference.length_scale,
     noise_w      |-> cfg.inference.noise_w]

IdleVoice ==
    /\ synth_config = load_model_config(config)
    /\ readers = {}
    /\ pc = [t \in Threads |-> "idle"]
    /\ call = [t \in Threads |-> NoCall]
    /\ res = [t \in Threads |-> NoResult]
    /\ log = [t \in Threads |-> NoLog]
    /\ streamer = [t \in Threads |-> None]
    /\ last_set = NothingSet(config)
    /\ snap = [t \in Threads |-> None]


(***************************************************************************)
(* The RwLock around synth_config (lib.rs:362, 554).  A write guard lives  *)
(* for one assignment only (lib.rs:269-270, 283, 290, 297) and a getter's  *)
(* read guard for one read (lib.rs:251, 280, 287, 294), so each of these   *)
(* is one step; an inference call keeps its read guard from lib.rs:420     *)
(* (612) until it returns.                                                 *)
(***************************************************************************)
\* .write(): blocks while any read guard is held.
write_guard_free == readers = {}

\* Mutant: the guard is a temporary, released as soon as it is taken.
read_guard_released(t) == readers

\* .read() in infer_with_values / infer_encoder: thread t holds a read guard.
read_guard(t) == readers \cup {t}

\* The guard is dropped when the function returns or unwinds.
drop_guard(t) == readers \ {t}

\* A thread's log is that of its last call.
new_call(t) ==
    /\ log' = [log EXCEPT ![t] = NoLog]
    /\ streamer' = [streamer EXCEPT ![t] = None]

(***************************************************************************)
(* get_speaker (lib.rs:245-260) and set_speaker (lib.rs:261-278).          *)
(***************************************************************************)
SingleSpeakerModel == <<"This model is a single speaker model.">>
InvalidSpeakerName(name) == <<"Invalid speaker name: ", name>>

\* Mutant: the selected speaker is ignored, the default one is reported.
get_speaker_result_default_only ==
    IF config.num_speakers = 0
       THEN OperationError("get_speaker", SingleSpeakerModel)
    ELSE IF 0 \in DOMAIN speaker_map
       THEN Ok("get_speaker", Some(speaker_map[0]))
    ELSE Ok("get_speaker", Some("Default"))

get_speaker_result ==
    IF config.num_speakers = 0
       THEN OperationError("get_speaker", SingleSpeakerModel)
    ELSE IF synth_config.speaker # None
       THEN Ok("get_speaker", Some(synth_config.speaker[1][1]))
    ELSE IF 0 \in DOMAIN speaker_map
       THEN Ok("get_speaker", Some(speaker_map[0]))
    ELSE Ok("get_speaker", Some("Default"))

get_speaker(t) ==
    /\ pc[t] = "idle"
    /\ res' = [res EXCEPT ![t] = get_speaker_result]
    /\ new_call(t)
    /\ UNCHANGED <<config, audio_f32, batch, speaker_map, phonemes, phoneme_ids, synth_config,
                   readers, pc, call, last_set, snap>>

set_speaker(t, name) ==
    /\ pc[t] = "idle"
    /\ IF config.num_speakers = 0
          THEN /\ res' = [res EXCEPT ![t] =
                              OperationError("set_speaker", SingleSpeakerModel)]
               /\ UNCHANGED <<synth_config, last_set>>
       ELSE IF name \in DOMAIN config.speaker_id_map
          THEN /\ write_guard_free
               /\ synth_config' = [synth_config EXCEPT
                      !.speaker = Some(<<name, config.speaker_id_map[name]>>)]
               /\ last_set' = [last_set EXCEPT
                      !.speaker = Some(<<name, config.speaker_id_map[name]>>)]
               /\ res' = [res EXCEPT ![t] = Ok("set_speaker", <<>>)]
       ELSE /\ res' = [res EXCEPT ![t] =
                           OperationError("set_speaker", InvalidSpeakerName(name))]
            /\ UNCHANGED <<synth_config, last_set>>
    /\ new_call(t)
    /\ UNCHANGED <<config, audio_f32, batch, speaker_map, phonemes, phoneme_ids, readers, pc, call, snap>>

(***************************************************************************)
(* The getters and setters of the three scales (lib.rs:279-299).           *)
(***************************************************************************)
get_noise_scale(t) ==
    /\ pc[t] = "idle"
    /\ res' = [res EXCEPT ![t] = Ok("get_noise_scale", synth_config.noise_scale)]
    /\ new_call(t)
    /\ UNCHANGED <<config, audio_f32, batch, speaker_map, phonemes, phoneme_ids, synth_config,
                   readers, pc, call, last_set, snap>>

set_noise_scale(t, value) ==
    /\ pc[t] = "idle"
    /\ write_guard_free
    /\ synth_config' = [synth_config EXCEPT !.noise_scale = value]
    /\ last_set' = [last_set EXCEPT !.noise_scale = value]
    /\ res' = [res EXCEPT ![t] = Ok("set_noise_scale", <<>>)]
    /\ new_call(t)
    /\ UNCHANGED <<config, audio_f32, batch, speaker_map, phonemes, phoneme_ids, readers, pc, call, snap>>

get_length_scale(t) ==
    /\ pc[t] = "idle"
    /\ res' = [res EXCEPT ![t] = Ok("get_length_scale", synth_config.length_scale)]
    /\ new_call(t)
    /\ UNCHANGED <<config, audio_f32, batch, speaker_map, phonemes, phoneme_ids, synth_config,
                   readers, pc, call, last_set, snap>>

set_length_scale(t, value) ==
    /\ pc[t] = "idle"
    /\ write_guard_free
    /\ synth_config' = [synth_config EXCEPT !.length_scale = value]
    /\ last_set' = [last_set EXCEPT !.length_scale = value]
    /\ res' = [res EXCEPT ![t] = Ok("set_length_scale", <<>>)]
    /\ new_call(t)
    /\ UNCHANGED <<config, audio_f32, batch, speaker_map, phonemes, phoneme_ids, readers, pc, call, snap>>

get_noise_w(t) ==
    /\ pc[t] = "idle"
    /\ res' = [res EXCEPT ![t] = Ok("get_noise_w", synth_config.noise_w)]
    /\ new_call(t)
    /\ UNCHANGED <<config, audio_f32, batch, speaker_map, phonemes, phoneme_ids, synth_config,
                   readers, pc, call, last_set, snap>>

\* Mutant: the setter of noise_w assigns noise_scale.
set_noise_w_into_noise_scale(t, value) ==
    /\ pc[t] = "idle"
    /\ write_guard_free
    /\ synth_config' = [synth_config EXCEPT !.noise_scale = value]
    /\ last_set' = [last_set EXCEPT !.noise_w = value]
    /\ res' = [res EXCEPT ![t] = Ok("set_noise_w", <<>>)]
    /\ new_call(t)
    /\ UNCHANGED <<config, audio_f32, batch, speaker_map, phonemes, phoneme_ids, readers, pc, call, snap>>

set_noise_w(t, value) ==
    /\ pc[t] = "idle"
    /\ write_guard_free
    /\ synth_config' = [synth_config EXCEPT !.noise_w = value]
    /\ last_set' = [last_set EXCEPT !.noise_w = value]
    /\ res' = [res EXCEPT ![t] = Ok("set_noise_w", <<>>)]
    /\ new_call(t)
    /\ UNCHANGED <<config, audio_f32, batch, speaker_map, phonemes, phoneme_ids, readers, pc, call, snap>>


(***************************************************************************)
(* The start of a synthesis call: speak_one_sentence (lib.rs:541-545,      *)
(* 698-702) and stream_synthesis (lib.rs:706-714) look up the meta ids,    *)
(* map the phonemes, and enter infer_with_values (lib.rs:419-434) or       *)
(* infer_encoder (lib.rs:611-626), which takes the read guard and reads    *)
(* the three scales.                                                       *)
(***************************************************************************)
begin_call(t, op, phs, chunk) ==
    /\ pc[t] = "idle"
    /\ new_call(t)
    /\ IF ~meta_ids_present(config)
          THEN \* .unwrap() on None (lib.rs:209-211)
               /\ pc' = [pc EXCEPT ![t] = "panicked"]
               /\ res' = [res EXCEPT ![t] = Panic(op, "get_meta_ids")]
               /\ UNCHANGED <<readers, call, snap>>
          ELSE LET m == get_meta_ids(config)
               IN  /\ readers' = read_guard(t)
                   /\ snap' = [snap EXCEPT ![t] = Some(synth_config)]
                   /\ call' = [call EXCEPT ![t] =
                         [NoCall EXCEPT
                            !.op = op,
                            !.ids = phonemes_to_input_ids(config, phs, m.pad_id,
                                                          m.bos_id, m.eos_id),
                            !.chunk = chunk,
                            !.scales = <<synth_config.noise_scale,
                                         synth_config.length_scale,
                                         synth_config.noise_w>>]]
                   /\ pc' = [pc EXCEPT ![t] = "locked"]
                   /\ res' = [res EXCEPT ![t] = NoResult]
    /\ UNCHANGED <<config, audio_f32, batch, speaker_map, phonemes, phoneme_ids, synth_config, last_set>>

speak_one_sentence(t, phs) == begin_call(t, "speak_one_sentence", phs, <<>>)

\* Only the streaming model has stream_synthesis (lib.rs:706-722).
stream_synthesis(t, phs, chunk_size, chunk_padding) ==
    /\ config.streaming
    /\ begin_call(t, "stream_synthesis", phs, <<chunk_size, chunk_padding>>)

(***************************************************************************)
(* lib.rs:436-457 and 628-648: the speaker id is read, the input tensors   *)
(* are built and session.run is entered.                                   *)
(***************************************************************************)
\* Mutant: a speaker id is passed whenever the model has speakers.
speaker_id_if_any ==
    IF config.num_speakers > 0
       THEN Some(<<IF synth_config.speaker = None THEN 0
                   ELSE synth_config.speaker[1][2]>>)
       ELSE None

speaker_id ==
    IF config.num_speakers > 1
       THEN Some(<<IF synth_config.speaker = None THEN 0
                   ELSE synth_config.speaker[1][2]>>)
       ELSE None

\* The input tensors (lib.rs:448-456, 640-647): ids, their length, the scales
\* and, if there is one, the speaker id.
input_tensors(ids, scales) == <<ids, <<Len(ids)>>, scales>> \o speaker_id

run_backend(t) ==
    /\ pc[t] = "locked"
    /\ call' = [call EXCEPT ![t].inputs = input_tensors(call[t].ids, call[t].scales)]
    /\ log' = [log EXCEPT ![t].runs =
                   Append(@, IF config.streaming THEN "encoder_model" ELSE "session")]
    /\ pc' = [pc EXCEPT ![t] = "run"]
    /\ UNCHANGED <<config, audio_f32, batch, speaker_map, phonemes, phoneme_ids, synth_config, readers,
                   res, streamer, last_set, snap>>

(***************************************************************************)
(* What a call makes of the first output tensor: outputs[0] (index out of  *)
(* bounds panics), try_extract, audio_float_to_i16 (lib.rs:469-486,        *)
(* 799-805, 36-58: an empty tensor gives no samples, a NaN makes min()     *)
(* fail, otherwise one sample per float).                                  *)
(***************************************************************************)
wave_result(op, out) ==
    IF out.n = 0 THEN Panic(op, "outputs[0]")
    ELSE IF out.bad = 1 THEN OperationError(op, InferenceFailed("try_extract"))
    ELSE IF out.total = 0
       THEN Ok(op, [samples |-> 0, sample_rate |-> config.sample_rate])
    ELSE IF out.nan
       THEN OperationError(op, <<"Invalid output from model inference.">>)
    ELSE Ok(op, [samples |-> out.total, sample_rate |-> config.sample_rate])

after(r) == IF r.kind = "panic" THEN "panicked" ELSE "idle"

\* Mutant: a failed run is run again instead of being returned.
session_returns_retrying(t, out) ==
    /\ pc[t] = "run"
    /\ ~config.streaming
    /\ IF out.ok
          THEN /\ res' = [res EXCEPT ![t] = wave_result(call[t].op, out)]
               /\ pc' = [pc EXCEPT ![t] = after(wave_result(call[t].op, out))]
               /\ log' = [log EXCEPT ![t].failed = None]
               /\ readers' = drop_guard(t)
               /\ snap' = [snap EXCEPT ![t] = None]
               /\ call' = [call EXCEPT ![t] = NoCall]
          ELSE /\ Len(log[t].runs) < 2
               /\ log' = [log EXCEPT ![t].failed = Some(out.msg),
                                      ![t].runs = Append(@, "session")]
               /\ UNCHANGED <<res, pc, readers, snap, call>>
    /\ UNCHANGED <<config, audio_f32, batch, speaker_map, phonemes, phoneme_ids, synth_config,
                   streamer, last_set>>

\* VitsModel::infer_with_values, from the return of session.run (lib.rs:457-487).
session_returns(t, out) ==
    /\ pc[t] = "run"
    /\ ~config.streaming
    /\ LET r == IF out.ok THEN wave_result(call[t].op, out)
                ELSE OperationError(call[t].op, InferenceFailed(out.msg))
       IN  /\ res' = [res EXCEPT ![t] = r]
           /\ pc' = [pc EXCEPT ![t] = after(r)]
    /\ log' = [log EXCEPT ![t].failed = IF out.ok THEN None ELSE Some(out.msg)]
    /\ readers' = drop_guard(t)
    /\ snap' = [snap EXCEPT ![t] = None]
    /\ call' = [call EXCEPT ![t] = NoCall]
    /\ UNCHANGED <<config, audio_f32, batch, speaker_map, phonemes, phoneme_ids, synth_config,
                   streamer, last_set>>


(***************************************************************************)
(* EncoderOutputs::new (lib.rs:735-774) on the values of a successful      *)
(* encoder run: values[0] and values[1] are indexed (out of bounds: a      *)
(* panic), each try_extract may fail, a third value is g.  What the        *)
(* decoder makes of z, y_mask and g is its audio, `total` samples long.    *)
(***************************************************************************)
EncoderOutputs_new(op, out) ==
    IF out.n = 0 THEN Panic(op, "values[0]")
    ELSE IF out.bad = 1 THEN OperationError(op, InferenceFailed("try_extract"))
    ELSE IF out.n = 1 THEN Panic(op, "values[1]")
    ELSE IF out.bad = 2 THEN OperationError(op, InferenceFailed("try_extract"))
    ELSE IF out.n = 3 /\ out.bad = 3
       THEN OperationError(op, InferenceFailed("try_extract"))
    ELSE Ok(op, [total |-> out.total])

\* Drop for EncoderOutputs (lib.rs:809-815): the values are taken out of the
\* ManuallyDrop and dropped, which releases the backend's buffers.
drop_EncoderOutputs(l) == [l EXCEPT !.released = @ + 1]

(***************************************************************************)
(* VitsStreamingModel::infer_encoder from the return of session.run        *)
(* (lib.rs:648-659).  The values are wrapped in ManuallyDrop, so they are  *)
(* released only by the drop of an EncoderOutputs.  On success             *)
(* infer_with_values goes on to run the decoder (lib.rs:603, 660-662,      *)
(* 775-789) and stream_synthesis returns the SpeechStreamer                *)
(* (lib.rs:715-721).  The read guard is dropped when infer_encoder returns *)
(* or unwinds.                                                             *)
(***************************************************************************)
encoder_returns(t, out) ==
    /\ pc[t] = "run"
    /\ config.streaming
    /\ LET op == call[t].op
           new == IF out.ok THEN EncoderOutputs_new(op, out)
                  ELSE OperationError(op, InferenceFailed(out.msg))
           logged == [log[t] EXCEPT
                        !.failed = IF out.ok THEN None ELSE Some(out.msg),
                        !.allocated = IF out.ok /\ out.n >= 1 THEN 1 ELSE 0]
       IN  IF new.kind # "Ok"
              THEN /\ res' = [res EXCEPT ![t] = new]
                   /\ pc' = [pc EXCEPT ![t] = after(new)]
                   /\ call' = [call EXCEPT ![t] = NoCall]
                   /\ log' = [log EXCEPT ![t] = logged]
                   /\ UNCHANGED streamer
           ELSE IF op # "stream_synthesis"
              THEN /\ call' = [call EXCEPT ![t] =
                                  [NoCall EXCEPT !.op = op, !.enc = Some(new.val)]]
                   /\ log' = [log EXCEPT ![t] =
                                  [logged EXCEPT !.runs = Append(@, "decoder_model")]]
                   /\ pc' = [pc EXCEPT ![t] = "dec_run"]
                   /\ UNCHANGED <<res, streamer>>
           ELSE /\ streamer' = [streamer EXCEPT ![t] =
                      Some([chunk_size      |-> call[t].chunk[1],
                            chunk_padding   |-> call[t].chunk[2],
                            encoder_outputs |-> new.val])]
                /\ res' = [res EXCEPT ![t] = Ok(op, <<>>)]
                /\ pc' = [pc EXCEPT ![t] = "streaming"]
                /\ call' = [call EXCEPT ![t] = NoCall]
                /\ log' = [log EXCEPT ![t] = logged]
    /\ readers' = drop_guard(t)
    /\ snap' = [snap EXCEPT ![t] = None]
    /\ UNCHANGED <<config, audio_f32, batch, speaker_map, phonemes, phoneme_ids, synth_config, last_set>>

(***************************************************************************)
(* EncoderOutputs::infer_decoder from the return of session.run            *)
(* (lib.rs:789-805); VitsStreamingModel::infer_decoder (lib.rs:660-662)    *)
(* owns the EncoderOutputs and drops them when it returns or unwinds.      *)
(***************************************************************************)
\* Mutant: the decoder's audio loses its last sample.
infer_decoder_result_truncated(op, out) ==
    IF out.n = 0 THEN Panic(op, "outputs[0]")
    ELSE IF out.bad = 1 THEN OperationError(op, InferenceFailed("try_extract"))
    ELSE IF out.total = 0
       THEN Ok(op, [samples |-> 0, sample_rate |-> config.sample_rate])
    ELSE IF out.nan
       THEN OperationError(op, <<"Invalid output from model inference.">>)
    ELSE Ok(op, [samples |-> out.total - 1, sample_rate |-> config.sample_rate])

\* What the streaming model returns from a successful decoder run
\* (lib.rs:799-805 and 604-609): outputs[0], try_extract, audio_float_to_i16,
\* wrapped with the descriptor's sample rate.
infer_decoder_result(op, out) ==
    IF out.n = 0 THEN Panic(op, "outputs[0]")
    ELSE IF out.bad = 1 THEN OperationError(op, InferenceFailed("try_extract"))
    ELSE IF out.total = 0
       THEN Ok(op, [samples |-> 0, sample_rate |-> config.sample_rate])
    ELSE IF out.nan
       THEN OperationError(op, <<"Invalid output from model inference.">>)
    ELSE Ok(op, [samples |-> out.total, sample_rate |-> config.sample_rate])

decoder_returns(t, out) ==
    /\ pc[t] = "dec_run"
    \* the decoder's audio is as long as the encoder's outputs make it
    /\ (out.ok /\ out.n = 1 /\ out.bad = 0) => out.total = call[t].enc[1].total
    /\ LET r == IF out.ok THEN infer_decoder_result(call[t].op, out)
                ELSE OperationError(call[t].op, InferenceFailed(out.msg))
       IN  /\ res' = [res EXCEPT ![t] = r]
           /\ pc' = [pc EXCEPT ![t] = after(r)]
    /\ log' = [log EXCEPT ![t] =
                  drop_EncoderOutputs([log[t] EXCEPT
                      !.failed = IF out.ok THEN None ELSE Some(out.msg)])]
    /\ call' = [call EXCEPT ![t] = NoCall]
    /\ UNCHANGED <<config, audio_f32, batch, speaker_map, phonemes, phoneme_ids, synth_config, readers,
                   streamer, last_set, snap>>

\* Mutant: a pull runs the encoder again.
next_running_encoder(t) ==
    /\ pc[t] = "streaming"
    /\ streamer' = [streamer EXCEPT ![t] = None]
    /\ res' = [res EXCEPT ![t] = Panic("next", "todo!()")]
    /\ pc' = [pc EXCEPT ![t] = "panicked"]
    /\ log' = [log EXCEPT ![t] = drop_EncoderOutputs([log[t] EXCEPT
                  !.runs = Append(@, "encoder_model")])]
    /\ UNCHANGED <<config, audio_f32, batch, speaker_map, phonemes, phoneme_ids, synth_config, readers,
                   call, last_set, snap>>

(***************************************************************************)
(* SpeechStreamer::next (lib.rs:827-829) is todo!(): a pull panics.  The   *)
(* unwinding drops the streamer and with it the EncoderOutputs.            *)
(***************************************************************************)
next(t) ==
    /\ pc[t] = "streaming"
    /\ streamer' = [streamer EXCEPT ![t] = None]
    /\ res' = [res EXCEPT ![t] = Panic("next", "todo!()")]
    /\ pc' = [pc EXCEPT ![t] = "panicked"]
    /\ log' = [log EXCEPT ![t] = drop_EncoderOutputs(log[t])]
    /\ UNCHANGED <<config, audio_f32, batch, speaker_map, phonemes, phoneme_ids, synth_config, readers,
                   call, last_set, snap>>

\* The caller discards the streamer (lib.rs:817-822, 809-815).
drop_streamer(t) ==
    /\ pc[t] = "streaming"
    /\ streamer' = [streamer EXCEPT ![t] = None]
    /\ pc' = [pc EXCEPT ![t] = "idle"]
    /\ log' = [log EXCEPT ![t] = drop_EncoderOutputs(log[t])]
    /\ UNCHANGED <<config, audio_f32, batch, speaker_map, phonemes, phoneme_ids, synth_config, readers,
                   call, res, last_set, snap>>

(***************************************************************************)
(* The voice: the descriptors it is loaded from, the calls threads make.   *)
(***************************************************************************)
Descriptors ==
    {ModelConfig(ns, st, CompleteVocabulary) : ns \in {0, 2}, st \in BOOLEAN}
      \cup {ModelConfig(2, st, VocabularyWithout(PAD)) : st \in BOOLEAN}

\* reversed_mapping (lib.rs:27-34): an id of the table is mapped to a name that has it.
reversed_mapping(m) ==
    {f \in [Range(m) -> DOMAIN m] : \A v \in Range(m) : m[f[v]] = v}

\* The phoneme strings callers pass to the synthesis calls.
Utterances == {<<"a">>, <<"x", "b">>}

Init ==
    /\ config \in Descriptors
    /\ speaker_map \in reversed_mapping(config.speaker_id_map)
    /\ phonemes = <<>>
    /\ phoneme_ids = None
    /\ audio_f32 = <<>>
    /\ batch = [t \in Threads |-> None]
    /\ IdleVoice

Next ==
    \E t \in Threads :
        \/ get_speaker(t)
        \/ \E name \in SpeakerNames : set_speaker(t, name)
        \/ get_noise_scale(t)
        \/ get_length_scale(t)
        \/ get_noise_w(t)
        \/ \E v \in Scales : set_noise_scale(t, v)
        \/ \E v \in Scales : set_length_scale(t, v)
        \/ \E v \in Scales : set_noise_w(t, v)
        \/ \E phs \in Utterances : speak_one_sentence(t, phs)
        \/ \E phs \in Utterances, cs \in 1..MaxChunk, cp \in 0..MaxPadding :
               stream_synthesis(t, phs, cs, cp)
        \/ run_backend(t)
        \/ \E out \in AudioOutcomes(0..MaxTotal) : session_returns(t, out)
        \/ \E out \in EncoderOutcomes : encoder_returns(t, out)
        \/ \E out \in AudioOutcomes(0..MaxTotal) : decoder_returns(t, out)
        \/ next(t)
        \/ drop_streamer(t)

Spec == Init /\ [][Next]_vars

(***************************************************************************)
(* The phoneme mapper on its own: every vocabulary with the meta           *)
(* characters, every phoneme string of at most MaxLen characters.          *)
(***************************************************************************)
RECURSIVE StringsUpTo(_)
StringsUpTo(n) ==
    IF n = 0 THEN {<<>>}
    ELSE LET shorter == StringsUpTo(n - 1)
         IN  shorter \cup {Append(s, c) : s \in shorter, c \in {"a", "b", "x", PAD}}

IdsInit ==
    /\ config \in {ModelConfig(2, FALSE, v) : v \in FullVocabularies}
    /\ speaker_map = [i \in {0, 1} |-> IF i = 0 THEN "alice" ELSE "bob"]
    /\ phonemes \in StringsUpTo(MaxLen)
    /\ phoneme_ids = None
    /\ audio_f32 = <<>>
    /\ batch = [t \in Threads |-> None]
    /\ IdleVoice

\* speak_one_sentence's first two lines (lib.rs:542-543), without the inference.
MapToIds ==
    /\ phoneme_ids = None
    /\ LET m == get_meta_ids(config)
       IN  phoneme_ids' = Some(phonemes_to_input_ids(config, phonemes,
                                                     m.pad_id, m.bos_id, m.eos_id))
    /\ UNCHANGED <<config, audio_f32, batch, speaker_map, phonemes, voice_vars>>

IdsNext == MapToIds

SpecIds == IdsInit /\ [][IdsNext]_vars

\* The ids of the characters of phs that the vocabulary maps, in order.
RECURSIVE MappedIds(_, _)
MappedIds(cfg, phs) ==
    IF phs = <<>> THEN <<>>
    ELSE (IF Head(phs) \in DOMAIN cfg.phoneme_id_map
             THEN <<Head(cfg.phoneme_id_map[Head(phs)])>> ELSE <<>>)
         \o MappedIds(cfg, Tail(phs))

\* BOS, the mapped ids and EOS, with one PAD between every two neighbours.
RECURSIVE Interleaved(_, _)
Interleaved(ids, pad) ==
    IF Len(ids) <= 1 THEN ids
    ELSE <<Head(ids), pad>> \o Interleaved(Tail(ids), pad)

\* C1: for every vocabulary with BOS, EOS and PAD and every phoneme string, the
\* result of phonemes_to_input_ids is BOS, the first ids of the mapped characters
\* in order, and EOS, with exactly one PAD between every two consecutive of them
\* (also between BOS and the first mapped id and between the last and EOS);
\* unmapped characters contribute nothing.
C1_PadBetweenEveryTwoIds ==
    phoneme_ids # None =>
        LET m == get_meta_ids(config)
        IN  phoneme_ids =
              Some(Interleaved(<<m.bos_id>> \o MappedIds(config, phonemes)
                                  \o <<m.eos_id>>, m.pad_id))

(***************************************************************************)
(* Properties of the voice.                                                *)
(***************************************************************************)
ParameterSetters == {"set_speaker", "set_noise_scale", "set_length_scale", "set_noise_w"}

\* C2: on a model with num_speakers = 0 every set_speaker and every get_speaker
\* fails with OperationError; on a model with speakers set_speaker(name) succeeds
\* exactly when name is a key of speaker_id_map and fails with OperationError
\* otherwise, and a get_speaker that follows a successful set_speaker(name), with
\* no other successful set_speaker between, returns exactly name.
C2_SpeakerOperations ==
    [][\A t \in Threads :
          /\ \A name \in SpeakerNames :
                set_speaker(t, name) =>
                    /\ res'[t].op = "set_speaker"
                    /\ res'[t].kind \in {"Ok", "OperationError"}
                    /\ res'[t].kind = "Ok" <=>
                          /\ config.num_speakers # 0
                          /\ name \in DOMAIN config.speaker_id_map
          /\ get_speaker(t) =>
                /\ res'[t].op = "get_speaker"
                /\ IF config.num_speakers = 0
                      THEN res'[t].kind = "OperationError"
                      ELSE last_set.speaker # None =>
                              /\ res'[t].kind = "Ok"
                              /\ res'[t].val = Some(last_set.speaker[1][1])]_vars

\* C2's case: a get_speaker returned "bob" (not the default speaker) after a
\* set_speaker("bob"), and another thread's set_speaker("carol") was refused.
C2_Witness ==
    \E t, u \in Threads :
        /\ res[t].op = "get_speaker" /\ res[t].kind = "Ok" /\ res[t].val = Some("bob")
        /\ res[u].op = "set_speaker" /\ res[u].kind = "OperationError"
        /\ config.num_speakers > 0

\* C3: a getter of noise_scale, length_scale or noise_w returns the value last
\* passed to the setter of that same scale, whatever getters, setters of other
\* parameters and synthesis calls came between; before any set of it, it returns
\* the descriptor's inference value.
C3_ReadYourWrite ==
    [][\A t \in Threads :
          /\ get_noise_scale(t) =>
                res'[t] = Ok("get_noise_scale", last_set.noise_scale)
          /\ get_length_scale(t) =>
                res'[t] = Ok("get_length_scale", last_set.length_scale)
          /\ get_noise_w(t) =>
                res'[t] = Ok("get_noise_w", last_set.noise_w)]_vars

\* C3's case: noise_scale was set away from the descriptor's value and read back
\* by a thread while the other thread's synthesis call is in the backend.
C3_Witness ==
    \E t, u \in Threads :
        /\ res[t].op = "get_noise_scale" /\ res[t].kind = "Ok"
        /\ res[t].val = 1 /\ config.inference.noise_scale = 0
        /\ pc[u] = "run"

\* The scales and the speaker id a SynthesisConfig gives to the backend.
ScalesOf(sc) == <<sc.noise_scale, sc.length_scale, sc.noise_w>>
SidOf(sc) == IF sc.speaker = None THEN 0 ELSE sc.speaker[1][2]

\* C4: while a synthesis call is in the backend (the monolithic run or the encoder
\* run), the scales and the speaker id among its inputs are those of the one
\* SynthesisConfig that was in the lock when the call took its read guard: never
\* a mix of values from before and after an update, and never changed by a later
\* update.
C4_SnapshotConsistency ==
    \A t \in Threads :
        pc[t] = "run" =>
            /\ snap[t] # None
            /\ call[t].inputs[3] = ScalesOf(snap[t][1])
            /\ IF config.num_speakers > 1
                  THEN /\ Len(call[t].inputs) = 4
                       /\ call[t].inputs[4] = <<SidOf(snap[t][1])>>
                  ELSE Len(call[t].inputs) = 3

\* C4's case: two synthesis calls are in the backend at once, with scales and a
\* speaker that setters changed from the descriptor's.
C4_Witness ==
    \E t, u \in Threads :
        /\ t # u /\ pc[t] = "run" /\ pc[u] = "run"
        /\ call[t].inputs[3] = <<1, 0, 1>>
        /\ Len(call[t].inputs) = 4 /\ call[t].inputs[4] = <<1>>

SynthesisCalls == {"speak_one_sentence", "stream_synthesis"}

\* C5: the buffers of the encoder's outputs are never released more often than
\* they were allocated, and when a call that the encoder's run succeeded in has
\* returned to its caller (with samples or with an error) and no streamer holds
\* them, they have been released exactly once.
C5_ReleasedExactlyOnce ==
    \A t \in Threads :
        /\ log[t].released <= log[t].allocated
        /\ (pc[t] = "idle" /\ log[t].allocated = 1) => log[t].released = 1

CeilDiv(l, c) == (l + c - 1) \div c

\* C6: when the consumption of a streamer ends in a pull (the streamer is gone
\* after it), its pulls have yielded exactly ceil(L / C) chunks, L the total
\* decoded length and C the chunk size.
C6_ChunkCount ==
    [][\A t \in Threads :
          (next(t) /\ streamer'[t] = None) =>
              log'[t].yielded =
                  CeilDiv(streamer[t][1].encoder_outputs.total,
                          streamer[t][1].chunk_size)]_vars

\* C7: every pull moves a streamer forward: it returns to its caller with an item
\* (Emitting) or with the end of the stream (Exhausted) and leaves a streamer
\* that can be pulled again; no pull ends otherwise.
C7_PullsReachExhausted ==
    [][\A t \in Threads :
          next(t) =>
              /\ streamer'[t] # None
              /\ pc'[t] = "streaming"
              /\ res'[t].op = "next"
              /\ res'[t].kind = "Ok"]_vars

\* C8: when the encoder's run succeeded with fewer than 2 output tensors, the
\* call returns an OperationError and has not run the decoder.
C8_TooFewEncoderOutputs ==
    [][\A t \in Threads : \A out \in EncoderOutcomes :
          (out.ok /\ out.n < 2 /\ encoder_returns(t, out)) =>
              /\ res'[t].kind = "OperationError"
              /\ pc'[t] = "idle"
              /\ log'[t].runs = <<"encoder_model">>]_vars

\* C9 as stated: when a backend run failed, the call has returned an error of
\* kind InferenceError with the backend's message and ran nothing after it.
C9_InferenceErrorKind ==
    \A t \in Threads :
        log[t].failed # None =>
            /\ pc[t] = "idle"
            /\ res[t].kind = "InferenceError"
            /\ res[t].val[2] = log[t].failed[1]

\* C9 as amended: when a backend run (the monolithic session, the encoder, the
\* decoder) failed, the call has returned, to its caller, an OperationError whose
\* message is "Failed to run model inference. Error: " and the backend's
\* message, and the failed run is the last the call made.
C9_OperationErrorNoRetry ==
    \A t \in Threads :
        log[t].failed # None =>
            /\ pc[t] = "idle"
            /\ res[t].op \in SynthesisCalls
            /\ res[t].kind = "OperationError"
            /\ res[t].val = <<"Failed to run model inference. Error: ", log[t].failed[1]>>
            /\ log[t].runs \in {<<"session">>, <<"encoder_model">>,
                                <<"encoder_model", "decoder_model">>}

\* C9's case: the decoder's run failed with "out of memory" after the encoder's
\* succeeded, and the call returned that.
C9_Witness ==
    \E t \in Threads :
        /\ log[t].failed = Some("out of memory")
        /\ log[t].runs = <<"encoder_model", "decoder_model">>
        /\ res[t].kind = "OperationError"
        /\ pc[t] = "idle"

\* C10: no call aborts (every failure is a value returned to the caller), and on
\* a voice whose vocabulary lacks PAD, BOS or EOS a synthesis call returns an
\* error before it runs the backend.
C10_FailuresAreValues ==
    \A t \in Threads :
        /\ res[t].kind # "panic"
        /\ pc[t] # "panicked"
        /\ (~meta_ids_present(config) /\ res[t].op \in SynthesisCalls) =>
              /\ res[t].kind = "OperationError"
              /\ log[t].runs = <<>>

(***************************************************************************)
(* Loading a voice: from_config (lib.rs:382-418, 565-598) creates the      *)
(* inference sessions, which may fail, and builds speaker_map from the     *)
(* descriptor's speaker_id_map with reversed_mapping.  The descriptors are *)
(* those serde accepts: any table from names to ids.                       *)
(***************************************************************************)
SpeakerTables ==
    UNION {[names -> 0..MaxSpeakerId] : names \in SUBSET {"alice", "bob", "carol"}}

LoadDescriptors ==
    {[ModelConfig(Cardinality(DOMAIN tbl), st, CompleteVocabulary)
         EXCEPT !.speaker_id_map = tbl] : tbl \in SpeakerTables, st \in BOOLEAN}

SessionFailed == <<"Failed to initialize onnxruntime inference session: ">>

LoadInit ==
    /\ config \in LoadDescriptors
    /\ speaker_map = <<>>
    /\ phonemes = <<>>
    /\ phoneme_ids = None
    /\ audio_f32 = <<>>
    /\ batch = [t \in Threads |-> None]
    /\ synth_config = load_model_config(config)
    /\ readers = {}
    /\ pc = [t \in Threads |-> "unloaded"]
    /\ call = [t \in Threads |-> NoCall]
    /\ res = [t \in Threads |-> NoResult]
    /\ log = [t \in Threads |-> NoLog]
    /\ streamer = [t \in Threads |-> None]
    /\ last_set = NothingSet(config)
    /\ snap = [t \in Threads |-> None]

\* Thread t loads the voice; session_ok: create_inference_session succeeded.
from_config(t, session_ok) ==
    /\ \A u \in Threads : pc[u] = "unloaded"
    /\ IF session_ok
          THEN /\ speaker_map' \in reversed_mapping(config.speaker_id_map)
               /\ res' = [res EXCEPT ![t] = Ok("from_config", <<>>)]
               /\ pc' = [u \in Threads |-> "idle"]
          ELSE /\ speaker_map' = speaker_map
               /\ res' = [res EXCEPT ![t] = OperationError("from_config", SessionFailed)]
               /\ pc' = [u \in Threads |-> "failed"]
    /\ UNCHANGED <<config, audio_f32, batch, phonemes, phoneme_ids, synth_config, readers, call, log,
                   streamer, last_set, snap>>

LoadNext == \E t \in Threads, session_ok \in BOOLEAN : from_config(t, session_ok)

SpecLoad == LoadInit /\ [][LoadNext]_vars

Loaded == \E t \in Threads : res[t].op = "from_config" /\ res[t].kind = "Ok"

\* C11: a descriptor whose speaker_id_map gives one id to two names is not
\* loaded, and in a loaded voice every name of the table is the image of
\* exactly one id of speaker_map.
C11_SpeakerMapBijection ==
    Loaded =>
        /\ \A n1, n2 \in DOMAIN config.speaker_id_map :
              config.speaker_id_map[n1] = config.speaker_id_map[n2] => n1 = n2
        /\ \A n \in DOMAIN config.speaker_id_map :
              Cardinality({i \in DOMAIN speaker_map : speaker_map[i] = n}) = 1

(***************************************************************************)
(* One descriptor, one set of parameters and one phoneme string given to a *)
(* monolithic voice (called by thread 1) and to a streaming voice (called  *)
(* by thread 2), with backends that agree: the decoder, run on what the    *)
(* encoder returns for the inputs x, returns the audio the monolithic      *)
(* session returns for x.  The calls are taken as one step each, nothing   *)
(* else runs beside them.                                                  *)
(***************************************************************************)
Monolithic == 1
Streaming == 2

RECURSIVE Sum(_)
Sum(seq) == IF seq = <<>> THEN 0 ELSE Head(seq) + Sum(Tail(seq))

\* The length of the audio the backends make of the inputs x: some function
\* that depends on every input tensor.
Duration(x) ==
    (Len(x[1]) + Sum(x[1]) + x[2][1] + Sum(x[3]) + (IF Len(x) = 4 THEN Sum(x[4]) + 1 ELSE 0))
        % (MaxTotal + 1)

\* session.run of the monolithic session (lib.rs:457).
EngineeredSession(x) == RunOutcome(TRUE, "", 1, 0, Duration(x), FALSE)
\* session.run of the encoder (lib.rs:648): z, y_mask and, given a speaker id, g.
EngineeredEncoder(x) ==
    RunOutcome(TRUE, "", IF Len(x) = 4 THEN 3 ELSE 2, 0, Duration(x), FALSE)
\* session.run of the decoder (lib.rs:789) on the encoder's outputs.
EngineeredDecoder(enc) == RunOutcome(TRUE, "", 1, 0, enc.total, FALSE)

\* The SynthesisConfigs setters can leave behind (lib.rs:261-299).
ParameterSets(cfg) ==
    {[speaker |-> sp, noise_scale |-> a, length_scale |-> b, noise_w |-> c] :
        sp \in {None} \cup (IF cfg.num_speakers = 0 THEN {}
                             ELSE {Some(<<n, cfg.speaker_id_map[n]>>) :
                                      n \in DOMAIN cfg.speaker_id_map}),
        a \in Scales, b \in Scales, c \in Scales}

EquivInit ==
    /\ config \in {ModelConfig(ns, FALSE, CompleteVocabulary) : ns \in {0, 2}}
    /\ speaker_map \in reversed_mapping(config.speaker_id_map)
    /\ phonemes \in StringsUpTo(MaxLen)
    /\ phoneme_ids = None
    /\ audio_f32 = <<>>
    /\ batch = [t \in Threads |-> None]
    /\ synth_config \in ParameterSets(config)
    /\ readers = {}
    /\ pc = [t \in Threads |-> "idle"]
    /\ call = [t \in Threads |-> NoCall]
    /\ res = [t \in Threads |-> NoResult]
    /\ log = [t \in Threads |-> NoLog]
    /\ streamer = [t \in Threads |-> None]
    /\ last_set = synth_config
    /\ snap = [t \in Threads |-> None]

\* speak_one_sentence (lib.rs:541-545, 698-702) up to session.run.
synthesis_inputs ==
    LET m == get_meta_ids(config)
    IN  input_tensors(phonemes_to_input_ids(config, phonemes, m.pad_id, m.bos_id, m.eos_id),
                      <<synth_config.noise_scale, synth_config.length_scale,
                        synth_config.noise_w>>)

\* VitsModel::infer_with_values (lib.rs:419-487).
monolithic_synthesize ==
    /\ res[Monolithic] = NoResult
    /\ res' = [res EXCEPT ![Monolithic] =
                  wave_result("speak_one_sentence", EngineeredSession(synthesis_inputs))]
    /\ UNCHANGED <<config, audio_f32, batch, speaker_map, phonemes, phoneme_ids, synth_config, readers,
                   pc, call, log, streamer, last_set, snap>>

\* VitsStreamingModel::infer_with_values (lib.rs:600-610): encode, then decode.
streaming_synthesize ==
    /\ res[Streaming] = NoResult
    /\ LET op == "speak_one_sentence"
           enc == EncoderOutputs_new(op, EngineeredEncoder(synthesis_inputs))
       IN  res' = [res EXCEPT ![Streaming] =
                      IF enc.kind # "Ok" THEN enc
                      ELSE infer_decoder_result(op, EngineeredDecoder(enc.val))]
    /\ UNCHANGED <<config, audio_f32, batch, speaker_map, phonemes, phoneme_ids, synth_config, readers,
                   pc, call, log, streamer, last_set, snap>>

EquivNext == monolithic_synthesize \/ streaming_synthesize

SpecEquiv == EquivInit /\ [][EquivNext]_vars

\* C12: with the same descriptor, the same parameters and agreeing backends,
\* the monolithic and the streaming synthesis of a phoneme string both return
\* samples, as many of them and at the same sample rate.
C12_SameSamplesBothModels ==
    (res[Monolithic] # NoResult /\ res[Streaming] # NoResult) =>
        /\ res[Monolithic].kind = "Ok"
        /\ res[Streaming].kind = "Ok"
        /\ res[Monolithic].val.samples = res[Streaming].val.samples
        /\ res[Monolithic].val.sample_rate = res[Streaming].val.sample_rate

\* Both voices have spoken a multi-speaker utterance that is not empty.
C12_Witness ==
    /\ res[Monolithic].kind = "Ok"
    /\ res[Streaming].kind = "Ok"
    /\ res[Streaming].val.samples >= 1
    /\ config.num_speakers > 1
    /\ synth_config.speaker # None
    /\ Len(phonemes) >= 2

(***************************************************************************)
(* audio_float_to_i16 (lib.rs:36-58).  A float of the tensor is an integer *)
(* number of 0.005s or NaN; a product i * audio_scale is an integer number *)
(* of 1/Resolution, off the exact quotient by at most one of them (the     *)
(* rounding of the f32 division and multiplication is far smaller).        *)
(***************************************************************************)
MAX_WAV_VALUE == 32767
I16_MIN == -32768
I16_MAX == 32767
\* 0.01f32, in 0.005s
AbsMaxFloor == 2

NaN == MaxAmp + 1
Floats == (-MaxAmp..MaxAmp) \cup {NaN}

Abs(x) == IF x < 0 THEN -x ELSE x
Max(x, y) == IF x >= y THEN x ELSE y
\* f32 as i16 and the model's division: towards zero.
Trunc(n, d) == IF n >= 0 THEN n \div d ELSE -((-n) \div d)
clamp(x, lo, hi) == IF x < lo THEN lo ELSE IF x > hi THEN hi ELSE x

\* ndarray-stats min() and max(): an error on a NaN (lib.rs:40, 45).
is_nan(audio) == \E i \in DOMAIN audio : audio[i] = NaN
min(audio) == CHOOSE x \in Range(audio) : \A y \in Range(audio) : x <= y
max(audio) == CHOOSE x \in Range(audio) : \A y \in Range(audio) : x >= y

\* Mutant: the two extrema are added up.
abs_max_sum(audio) == max(audio) + Abs(min(audio))

\* lib.rs:51
abs_max(audio) == Max(max(audio), Abs(min(audio)))

\* Mutant: the cast rounds down.
as_i16_floor(r) == r \div Resolution

\* `as i16` of a float within the i16 range.
as_i16(r) == Trunc(r, Resolution)

RoundingErrors == {-1, 0, 1}

\* lib.rs:52-55: i * (MAX_WAV_VALUE / abs_max.max(0.01)), clamped.
scaled(i, audio, err) ==
    clamp(Trunc(i * MAX_WAV_VALUE * Resolution, Max(abs_max(audio), AbsMaxFloor)) + err,
          I16_MIN * Resolution, I16_MAX * Resolution)

InvalidOutput == <<"Invalid output from model inference.">>

audio_float_to_i16_result(audio, errs) ==
    IF audio = <<>> THEN Ok("audio_float_to_i16", <<>>)
    ELSE IF is_nan(audio) THEN OperationError("audio_float_to_i16", InvalidOutput)
    ELSE Ok("audio_float_to_i16",
            [i \in DOMAIN audio |-> as_i16(scaled(audio[i], audio, errs[i]))])

RECURSIVE TensorsUpTo(_)
TensorsUpTo(n) ==
    IF n = 0 THEN {<<>>}
    ELSE LET shorter == TensorsUpTo(n - 1)
         IN  shorter \cup {Append(a, f) : a \in shorter, f \in Floats}

PcmInit ==
    /\ config = ModelConfig(0, FALSE, CompleteVocabulary)
    /\ speaker_map \in reversed_mapping(config.speaker_id_map)
    /\ phonemes = <<>>
    /\ phoneme_ids = None
    /\ audio_f32 \in TensorsUpTo(MaxSamples)
    /\ batch = [t \in Threads |-> None]
    /\ IdleVoice

audio_float_to_i16(t) ==
    /\ \A u \in Threads : res[u] = NoResult
    /\ \E errs \in [DOMAIN audio_f32 -> RoundingErrors] :
          res' = [res EXCEPT ![t] = audio_float_to_i16_result(audio_f32, errs)]
    /\ UNCHANGED <<config, audio_f32, batch, speaker_map, phonemes, phoneme_ids, synth_config,
                   readers, pc, call, log, streamer, last_set, snap>>

PcmNext == \E t \in Threads : audio_float_to_i16(t)

SpecPcm == PcmInit /\ [][PcmNext]_vars

Rendered(t) == res[t].op = "audio_float_to_i16"

\* C13: for every tensor of finite floats audio_float_to_i16 succeeds and returns
\* as many samples as the tensor has floats (none for the empty tensor), every
\* one of them between -32767 and 32767.
C13_SameLengthWithinRange ==
    \A t \in Threads :
        (Rendered(t) /\ ~is_nan(audio_f32)) =>
            /\ res[t].kind = "Ok"
            /\ Len(res[t].val) = Len(audio_f32)
            /\ \A i \in DOMAIN res[t].val :
                  -MAX_WAV_VALUE <= res[t].val[i] /\ res[t].val[i] <= MAX_WAV_VALUE

\* A full tensor was rendered whose negative peak came out at -32767.
C13_Witness ==
    \E t \in Threads :
        /\ Rendered(t) /\ res[t].kind = "Ok"
        /\ Len(audio_f32) = MaxSamples
        /\ \E i \in DOMAIN res[t].val : res[t].val[i] = -MAX_WAV_VALUE

\* The tensor has a positive and a negative float.
BothSigns(audio) ==
    /\ ~is_nan(audio)
    /\ \E i \in DOMAIN audio : audio[i] > 0
    /\ \E i \in DOMAIN audio : audio[i] < 0

\* The sample at every position of the louder extremum is within 1 of 32767
\* with the extremum's sign.
Loudest(audio, i) == \A j \in DOMAIN audio : Abs(audio[i]) >= Abs(audio[j])

PeakAtFullScale(t) ==
    \A i \in DOMAIN audio_f32 :
        Loudest(audio_f32, i) =>
            Abs(res[t].val[i] - (IF audio_f32[i] > 0 THEN MAX_WAV_VALUE
                                 ELSE -MAX_WAV_VALUE)) <= 1

\* C14 as stated: for every tensor with a positive and a negative float, the
\* sample of the louder extremum is within 1 of +32767 or -32767.
C14_PeakNormalization ==
    \A t \in Threads :
        (Rendered(t) /\ BothSigns(audio_f32)) => PeakAtFullScale(t)

\* C14, amended: the same for tensors whose louder extremum is at least 0.01 in
\* absolute value.
C14_PeakNormalizationAboveFloor ==
    \A t \in Threads :
        (/\ Rendered(t)
         /\ BothSigns(audio_f32)
         /\ \E i \in DOMAIN audio_f32 : Abs(audio_f32[i]) >= AbsMaxFloor) =>
            PeakAtFullScale(t)

\* A tensor with both signs whose louder extremum is the negative one and lies
\* above the floor was rendered.
C14_Witness ==
    \E t \in Threads :
        /\ Rendered(t) /\ BothSigns(audio_f32)
        /\ \E i \in DOMAIN audio_f32 :
              /\ Loudest(audio_f32, i)
              /\ audio_f32[i] < -AbsMaxFloor
              /\ \A j \in DOMAIN audio_f32 : j # i => ~Loudest(audio_f32, j)

(***************************************************************************)
(* Speaker selection and synthesis on voices with no, one and two          *)
(* speakers: set_speaker and the synthesis calls of both models, the       *)
(* scales left at the descriptor's values.                                 *)
(***************************************************************************)
SidInit ==
    /\ config \in {ModelConfig(ns, st, CompleteVocabulary) : ns \in {0, 1, 2}, st \in BOOLEAN}
    /\ speaker_map \in reversed_mapping(config.speaker_id_map)
    /\ phonemes = <<>>
    /\ phoneme_ids = None
    /\ audio_f32 = <<>>
    /\ batch = [t \in Threads |-> None]
    /\ IdleVoice

SidNext ==
    \E t \in Threads :
        \/ \E name \in {"alice", "bob", "carol"} : set_speaker(t, name)
        \/ \E phs \in Utterances : speak_one_sentence(t, phs)
        \/ \E phs \in Utterances, cs \in 1..MaxChunk, cp \in 0..MaxPadding :
               stream_synthesis(t, phs, cs, cp)
        \/ run_backend(t)
        \/ \E out \in AudioOutcomes(0..MaxTotal) : session_returns(t, out)
        \/ \E out \in EncoderOutcomes : encoder_returns(t, out)
        \/ \E out \in AudioOutcomes(0..MaxTotal) : decoder_returns(t, out)
        \/ drop_streamer(t)

SpecSid == SidInit /\ [][SidNext]_vars

\* C15: the inputs of a monolithic run and of an encoder run hold a speaker id
\* tensor exactly when num_speakers > 1; it then holds the id the table gives
\* the name of the last successful set_speaker, or 0 if there was none; with
\* num_speakers <= 1 the inputs are the three tensors ids, length and scales,
\* whatever set_speaker calls preceded.
C15_SpeakerIdTensor ==
    \A t \in Threads :
        pc[t] = "run" =>
            /\ call[t].inputs[1] = call[t].ids
            /\ call[t].inputs[2] = <<Len(call[t].ids)>>
            /\ call[t].inputs[3] = call[t].scales
            /\ IF config.num_speakers > 1
                  THEN /\ Len(call[t].inputs) = 4
                       /\ call[t].inputs[4] =
                             <<IF last_set.speaker = None THEN 0
                               ELSE config.speaker_id_map[last_set.speaker[1][1]]>>
                  ELSE Len(call[t].inputs) = 3

\* A voice with one speaker runs its backend after a successful set_speaker.
C15_Witness ==
    \E t \in Threads :
        /\ pc[t] = "run"
        /\ config.num_speakers = 1
        /\ last_set.speaker # None

(***************************************************************************)
(* speak_batch (lib.rs:527-539, 685-697): all phoneme strings are mapped   *)
(* to ids, then infer_with_values is called on one after the other and its *)
(* result pushed to retval; `?` returns the first error.  The backends are *)
(* those of SpecEquiv, except that any run may fail.                       *)
(***************************************************************************)
RECURSIVE BatchesUpTo(_)
BatchesUpTo(n) ==
    IF n = 0 THEN {<<>>}
    ELSE LET shorter == BatchesUpTo(n - 1)
         IN  shorter \cup {Append(b, phs) : b \in shorter, phs \in Utterances}

input_ids(phs) ==
    LET m == get_meta_ids(config)
    IN  phonemes_to_input_ids(config, phs, m.pad_id, m.bos_id, m.eos_id)

\* lib.rs:528-533
speak_batch(t, phoneme_batches) ==
    /\ pc[t] = "idle"
    /\ IF batch[t] = None THEN TRUE ELSE ~batch[t][1].active
    /\ new_call(t)
    /\ IF ~meta_ids_present(config)
          THEN /\ pc' = [pc EXCEPT ![t] = "panicked"]
               /\ res' = [res EXCEPT ![t] = Panic("speak_batch", "get_meta_ids")]
               /\ UNCHANGED batch
          ELSE /\ batch' = [batch EXCEPT ![t] =
                     Some([items   |-> phoneme_batches,
                           pending |-> [i \in DOMAIN phoneme_batches |->
                                           input_ids(phoneme_batches[i])],
                           retval  |-> <<>>,
                           active  |-> TRUE])]
               /\ pc' = [pc EXCEPT ![t] = "batch"]
               /\ res' = [res EXCEPT ![t] = NoResult]
    /\ UNCHANGED <<config, audio_f32, speaker_map, phonemes, phoneme_ids, synth_config,
                   readers, call, last_set, snap>>

\* The head of the loop (lib.rs:535, 538): the next ids are given to
\* infer_with_values, which takes the read guard and reads the scales
\* (lib.rs:420-434, 612-626); after the last, retval is returned.
batch_next(t) ==
    /\ pc[t] = "batch"
    /\ LET b == batch[t][1]
       IN  IF b.pending = <<>>
              THEN /\ res' = [res EXCEPT ![t] = Ok("speak_batch", b.retval)]
                   /\ pc' = [pc EXCEPT ![t] = "idle"]
                   /\ batch' = [batch EXCEPT ![t] = Some([b EXCEPT !.active = FALSE])]
                   /\ UNCHANGED <<readers, snap, call, log>>
              ELSE /\ readers' = read_guard(t)
                   /\ snap' = [snap EXCEPT ![t] = Some(synth_config)]
                   /\ call' = [call EXCEPT ![t] =
                         [NoCall EXCEPT
                            !.op = "speak_batch",
                            !.ids = Head(b.pending),
                            !.scales = <<synth_config.noise_scale,
                                         synth_config.length_scale,
                                         synth_config.noise_w>>]]
                   /\ batch' = [batch EXCEPT ![t] = Some([b EXCEPT !.pending = Tail(@)])]
                   /\ log' = [log EXCEPT ![t].allocated = 0, ![t].released = 0]
                   /\ pc' = [pc EXCEPT ![t] = "locked"]
                   /\ UNCHANGED res
    /\ UNCHANGED <<config, audio_f32, speaker_map, phonemes, phoneme_ids, synth_config,
                   streamer, last_set>>

\* Mutant: an error of an item is dropped and the loop goes on.
batch_push_skipping_errors(t) ==
    /\ pc[t] = "idle"
    /\ batch[t] # None /\ batch[t][1].active
    /\ IF res[t].kind = "Ok"
          THEN batch' = [batch EXCEPT ![t] =
                            Some([batch[t][1] EXCEPT !.retval = Append(@, res[t].val)])]
          ELSE UNCHANGED batch
    /\ pc' = [pc EXCEPT ![t] = "batch"]
    /\ res' = [res EXCEPT ![t] = NoResult]
    /\ UNCHANGED <<config, audio_f32, speaker_map, phonemes, phoneme_ids, synth_config,
                   readers, call, log, streamer, last_set, snap>>

\* retval.push(self.infer_with_values(phonemes)?) (lib.rs:536, 694), once
\* infer_with_values has returned: an Ok is pushed, an Err is returned.
batch_push(t) ==
    /\ pc[t] = "idle"
    /\ batch[t] # None /\ batch[t][1].active
    /\ IF res[t].kind = "Ok"
          THEN /\ batch' = [batch EXCEPT ![t] =
                               Some([batch[t][1] EXCEPT !.retval = Append(@, res[t].val)])]
               /\ pc' = [pc EXCEPT ![t] = "batch"]
               /\ res' = [res EXCEPT ![t] = NoResult]
          ELSE /\ batch' = [batch EXCEPT ![t] = Some([batch[t][1] EXCEPT !.active = FALSE])]
               /\ UNCHANGED <<pc, res>>
    /\ UNCHANGED <<config, audio_f32, speaker_map, phonemes, phoneme_ids, synth_config,
                   readers, call, log, streamer, last_set, snap>>

\* What the run of a session that thread t is in may return.
BatchOutcomes(t, session) ==
    RunErrors \cup
        (IF pc[t] = "run" /\ session = "session"
            THEN {EngineeredSession(call[t].inputs)}
         ELSE IF pc[t] = "run" /\ session = "encoder_model"
            THEN {EngineeredEncoder(call[t].inputs)}
         ELSE IF pc[t] = "dec_run" /\ session = "decoder_model"
            THEN {EngineeredDecoder(call[t].enc[1])}
         ELSE {})

BatchInit ==
    /\ config \in {ModelConfig(ns, st, CompleteVocabulary) : ns \in {0, 2}, st \in BOOLEAN}
    /\ speaker_map \in reversed_mapping(config.speaker_id_map)
    /\ phonemes = <<>>
    /\ phoneme_ids = None
    /\ audio_f32 = <<>>
    /\ batch = [t \in Threads |-> None]
    /\ IdleVoice

BatchNext ==
    \E t \in Threads :
        \/ \E b \in BatchesUpTo(MaxBatch) : speak_batch(t, b)
        \/ batch_next(t)
        \/ run_backend(t)
        \/ \E out \in BatchOutcomes(t, "session") : session_returns(t, out)
        \/ \E out \in BatchOutcomes(t, "encoder_model") : encoder_returns(t, out)
        \/ \E out \in BatchOutcomes(t, "decoder_model") : decoder_returns(t, out)
        \/ batch_push(t)

SpecBatch == BatchInit /\ [][BatchNext]_vars

\* The sessions one infer_with_values runs.
PerItem == IF config.streaming THEN <<"encoder_model", "decoder_model">> ELSE <<"session">>

RECURSIVE Repeat(_, _)
Repeat(s, n) == IF n = 0 THEN <<>> ELSE s \o Repeat(s, n - 1)

IsPrefix(a, b) == Len(a) <= Len(b) /\ a = SubSeq(b, 1, Len(a))

\* What synthesizing phs on its own returns when no run fails.
ExpectedWave(phs) ==
    [samples     |-> Duration(input_tensors(input_ids(phs),
                                            <<synth_config.noise_scale,
                                              synth_config.length_scale,
                                              synth_config.noise_w>>)),
     sample_rate |-> config.sample_rate]

\* C16: speak_batch on n phoneme strings runs the backend once per item (the
\* encoder and the decoder once each on the streaming model), in input order,
\* each run on the ids of one item only; the results collected are those of the
\* items in order; on success exactly n results are returned; when the
\* inference of an item fails, that error is returned and no later item is
\* given to the backend.
C16_BatchInOrder ==
    \A t \in Threads :
        batch[t] # None =>
            LET b == batch[t][1]
                k == Len(b.retval)
                n == Len(b.items)
            IN  /\ IsPrefix(log[t].runs, Repeat(PerItem, n))
                /\ k * Len(PerItem) <= Len(log[t].runs)
                /\ Len(log[t].runs) <= (k + 1) * Len(PerItem)
                /\ pc[t] \in {"locked", "run", "dec_run"} =>
                      /\ k < n
                      /\ Len(b.pending) = n - k - 1
                /\ pc[t] \in {"locked", "run"} => call[t].ids = input_ids(b.items[k + 1])
                /\ pc[t] = "run" => call[t].inputs[1] = input_ids(b.items[k + 1])
                /\ \A i \in 1..k : b.retval[i] = ExpectedWave(b.items[i])
                /\ (~b.active /\ res[t].kind = "Ok") =>
                      /\ k = n
                      /\ res[t].val = b.retval
                      /\ log[t].runs = Repeat(PerItem, n)
                /\ (~b.active /\ res[t].kind # "Ok") =>
                      /\ k < n
                      /\ res[t].kind = "OperationError"
                      /\ log[t].failed # None
                      /\ Len(b.pending) = n - k - 1

\* A streaming voice has returned the results of a batch of two different
\* phoneme strings, and they differ.
C16_Witness ==
    \E t \in Threads :
        /\ batch[t] # None /\ ~batch[t][1].active
        /\ config.streaming
        /\ res[t].kind = "Ok"
        /\ Len(res[t].val) = 2
        /\ res[t].val[1] # res[t].val[2]

\* C17: a call never runs a session twice and runs them in order; a monolithic
\* speak_one_sentence that has returned ran the session exactly once; a
\* streaming one that has returned samples ran the encoder once and then the
\* decoder once, and the decoder was run only on outputs the encoder returned;
\* stream_synthesis returns its streamer after one run of the encoder and none
\* of the decoder, and a pull of the streamer runs the encoder no further time.
C17_BackendCallOrder ==
    \A t \in Threads :
        /\ IsPrefix(log[t].runs, PerItem)
        /\ (res[t].op = "speak_one_sentence" /\ pc[t] = "idle") =>
              /\ log[t].runs # <<>>
              /\ res[t].kind = "Ok" => log[t].runs = PerItem
              /\ log[t].runs = PerItem \/ res[t].kind = "OperationError"
        /\ Len(log[t].runs) = 2 => log[t].allocated = 1
        /\ (res[t].op = "stream_synthesis" /\ res[t].kind = "Ok") =>
              log[t].runs = <<"encoder_model">>
        /\ res[t].op = "next" => log[t].runs = <<"encoder_model">>

\* A streamer was pulled while the other thread's streaming speak_one_sentence
\* had returned samples.
C17_Witness ==
    \E t, u \in Threads :
        /\ res[t].op = "next"
        /\ res[u].op = "speak_one_sentence" /\ res[u].kind = "Ok" /\ pc[u] = "idle"
        /\ log[u].runs = <<"encoder_model", "decoder_model">>

(***************************************************************************)
(* The setters step by step: a setter first checks its argument            *)
(* (set_speaker only, lib.rs:262-267, 272-276), then waits in .write() for *)
(* the write guard, assigns and returns (lib.rs:268-271, 283-284, 290-291, *)
(* 297-298).  The RwLock grants a waiting writer the lock when it keeps    *)
(* becoming free; a session.run that was entered returns.                  *)
(***************************************************************************)
ScaleSetters == {"set_noise_scale", "set_length_scale", "set_noise_w"}

set_begin(t, op, value) ==
    /\ pc[t] = "idle"
    /\ new_call(t)
    /\ IF op = "set_speaker" /\ config.num_speakers = 0
          THEN /\ res' = [res EXCEPT ![t] = OperationError(op, SingleSpeakerModel)]
               /\ UNCHANGED <<pc, call>>
       ELSE IF op = "set_speaker" /\ value \notin DOMAIN config.speaker_id_map
          THEN /\ res' = [res EXCEPT ![t] = OperationError(op, InvalidSpeakerName(value))]
               /\ UNCHANGED <<pc, call>>
       ELSE /\ pc' = [pc EXCEPT ![t] = "write"]
            /\ call' = [call EXCEPT ![t] =
                  [NoCall EXCEPT
                     !.op = op,
                     !.inputs = <<IF op = "set_speaker"
                                     THEN <<value, config.speaker_id_map[value]>>
                                     ELSE value>>]]
            /\ res' = [res EXCEPT ![t] = NoResult]
    /\ UNCHANGED <<config, audio_f32, batch, speaker_map, phonemes, phoneme_ids, synth_config,
                   readers, last_set, snap>>

assigned(sc, op, value) ==
    CASE op = "set_speaker"      -> [sc EXCEPT !.speaker = Some(value)]
      [] op = "set_noise_scale"  -> [sc EXCEPT !.noise_scale = value]
      [] op = "set_length_scale" -> [sc EXCEPT !.length_scale = value]
      [] OTHER                   -> [sc EXCEPT !.noise_w = value]

\* Mutant: the assignment is made without the write guard.
set_write_unguarded(t) ==
    /\ pc[t] = "write"
    /\ synth_config' = assigned(synth_config, call[t].op, call[t].inputs[1])
    /\ last_set' = assigned(last_set, call[t].op, call[t].inputs[1])
    /\ res' = [res EXCEPT ![t] = Ok(call[t].op, <<>>)]
    /\ pc' = [pc EXCEPT ![t] = "idle"]
    /\ call' = [call EXCEPT ![t] = NoCall]
    /\ UNCHANGED <<config, audio_f32, batch, speaker_map, phonemes, phoneme_ids, readers, log,
                   streamer, snap>>

set_write(t) ==
    /\ pc[t] = "write"
    /\ write_guard_free
    /\ synth_config' = assigned(synth_config, call[t].op, call[t].inputs[1])
    /\ last_set' = assigned(last_set, call[t].op, call[t].inputs[1])
    /\ res' = [res EXCEPT ![t] = Ok(call[t].op, <<>>)]
    /\ pc' = [pc EXCEPT ![t] = "idle"]
    /\ call' = [call EXCEPT ![t] = NoCall]
    /\ UNCHANGED <<config, audio_f32, batch, speaker_map, phonemes, phoneme_ids, readers, log,
                   streamer, snap>>

LockInit ==
    /\ config \in {ModelConfig(2, st, CompleteVocabulary) : st \in BOOLEAN}
    /\ speaker_map \in reversed_mapping(config.speaker_id_map)
    /\ phonemes = <<>>
    /\ phoneme_ids = None
    /\ audio_f32 = <<>>
    /\ batch = [t \in Threads |-> None]
    /\ IdleVoice

LockNext ==
    \E t \in Threads :
        \/ \E name \in SpeakerNames : set_begin(t, "set_speaker", name)
        \/ \E op \in ScaleSetters : set_begin(t, op, MaxScale)
        \/ set_write(t)
        \/ get_noise_scale(t)
        \/ speak_one_sentence(t, <<"a">>)
        \/ run_backend(t)
        \/ \E out \in AudioOutcomes({1}) : session_returns(t, out)
        \/ \E out \in EncoderOutcomes : encoder_returns(t, out)
        \/ \E out \in AudioOutcomes({1}) : decoder_returns(t, out)

LockFairness ==
    \A t \in Threads :
        /\ SF_vars(set_write(t))
        /\ WF_vars(run_backend(t))
        /\ WF_vars(\E out \in AudioOutcomes({1}) : session_returns(t, out))
        /\ WF_vars(\E out \in EncoderOutcomes : encoder_returns(t, out))

SpecLock == LockInit /\ [][LockNext]_vars /\ LockFairness

\* A backend invocation made under the read guard (the monolithic run, the
\* encoder run) is in flight.
InFlight == \E u \in Threads : pc[u] = "run"

\* Thread t returns from a setter in this step.
SetterReturns(t) == res'[t] # res[t] /\ res'[t].op \in ParameterSetters

====
